---- MODULE Spec2Model ----
(***************************************************************************)
(* Model of cfeconfig/config.py: a layered configuration resolver that     *)
(* merges CLI options, a YAML file and the process environment into one    *)
(* module-level store.                                                     *)
(*                                                                         *)
(* Python strings are sequences of one-character strings, so that upper(), *)
(* lower(), strip(), replace() and startswith() are computed as Python     *)
(* computes them.  Python dicts (dict, OrderedDict, os.environ) keep       *)
(* insertion order, so a dict is a sequence of [k, v] entries with         *)
(* pairwise distinct keys.                                                 *)
(***************************************************************************)
EXTENDS Integers, Sequences, FiniteSets, TLC

(***************************************************************************)
(* Strings                                                                 *)
(***************************************************************************)
Lowers == <<"a","b","c","d","e","f","g","h","i","j","k","l","m",
            "n","o","p","q","r","s","t","u","v","w","x","y","z">>
Uppers == <<"A","B","C","D","E","F","G","H","I","J","K","L","M",
            "N","O","P","Q","R","S","T","U","V","W","X","Y","Z">>

\* str.upper() on one character
UpperChar(c) ==
  IF \E i \in 1..Len(Lowers) : Lowers[i] = c
  THEN Uppers[CHOOSE i \in 1..Len(Lowers) : Lowers[i] = c]
  ELSE c

\* str.lower() on one character
LowerChar(c) ==
  IF \E i \in 1..Len(Uppers) : Uppers[i] = c
  THEN Lowers[CHOOSE i \in 1..Len(Uppers) : Uppers[i] = c]
  ELSE c

\* str.upper()
Upper(s) == [i \in 1..Len(s) |-> UpperChar(s[i])]

\* str.lower()
Lower(s) == [i \in 1..Len(s) |-> LowerChar(s[i])]

\* str.startswith(p)
StartsWith(s, p) == Len(s) >= Len(p) /\ SubSeq(s, 1, Len(p)) = p

\* str.strip(chars): drops leading and trailing characters that are in chars
RECURSIVE LStrip(_, _)
LStrip(s, chars) ==
  IF s # <<>> /\ Head(s) \in chars THEN LStrip(Tail(s), chars) ELSE s

RECURSIVE RStrip(_, _)
RStrip(s, chars) ==
  IF s # <<>> /\ s[Len(s)] \in chars
  THEN RStrip(SubSeq(s, 1, Len(s) - 1), chars) ELSE s

Strip(s, chars) == RStrip(LStrip(s, chars), chars)

\* str.replace(old, new) for non-empty old: every non-overlapping occurrence,
\* scanning from the left
RECURSIVE Replace(_, _, _)
Replace(s, old, new) ==
  IF s = <<>> THEN <<>>
  ELSE IF StartsWith(s, old)
       THEN new \o Replace(SubSeq(s, Len(old) + 1, Len(s)), old, new)
       ELSE <<Head(s)>> \o Replace(Tail(s), old, new)

(***************************************************************************)
(* Python values.  kind is the Python type, s is str(value).               *)
(***************************************************************************)
Str(s)  == [kind |-> "str", s |-> s]
PyTrue  == [kind |-> "bool", s |-> <<"T","r","u","e">>]
PyFalse == [kind |-> "bool", s |-> <<"F","a","l","s","e">>]
PyNone  == [kind |-> "NoneType", s |-> <<"N","o","n","e">>]
\* a nested mapping, as yaml.full_load produces for a nested document
PyMap   == [kind |-> "dict", s |-> <<"{","}">>]

(***************************************************************************)
(* Python dicts: sequences of entries, keys pairwise distinct              *)
(***************************************************************************)
EmptyDict == <<>>

Keys(d) == {d[i].k : i \in 1..Len(d)}

HasKey(d, k) == \E i \in 1..Len(d) : d[i].k = k

\* d[k], for k in d
Lookup(d, k) == d[CHOOSE i \in 1..Len(d) : d[i].k = k].v

\* d[k] = v : an existing key keeps its position, a new key is appended
DictSet(d, k, v) ==
  IF HasKey(d, k)
  THEN [i \in 1..Len(d) |-> IF d[i].k = k THEN [k |-> k, v |-> v] ELSE d[i]]
  ELSE Append(d, [k |-> k, v |-> v])

\* del d[k]
DictDel(d, k) == SelectSeq(d, LAMBDA e : e.k # k)

\* d.update(e)
RECURSIVE DictUpdate(_, _)
DictUpdate(d, e) ==
  IF e = <<>> THEN d
  ELSE DictUpdate(DictSet(d, Head(e).k, Head(e).v), Tail(e))

\* two dicts hold the same keys with the same values (dict equality ignores
\* insertion order)
SameMapping(d, e) ==
  /\ Keys(d) = Keys(e)
  /\ \A k \in Keys(d) : Lookup(d, k) = Lookup(e, k)

(***************************************************************************)
(* Module state of config.py                                               *)
(***************************************************************************)
VARIABLES
  immutable_config_values,  \* the shared store: [none, d], none = it is None
  seen_prefixes,            \* set of prefix strings, as passed to load
  environ,                  \* os.environ
  ret,                      \* what the last call returned to its caller
  call,                     \* the last call and its arguments
  pre,                      \* store, seen set and environment before that call
  ncalls,                   \* calls made so far
  nloads,                   \* load calls made so far
  twin,                     \* a second process making the same calls with
                            \* the prefixes spelled in another letter case
  stored_by,                \* the pairs <<prefix, key>> where a load of the
                            \* prefix updated the store with the key
  threads                   \* the load call each thread is in: its
                            \* arguments, its locals and the line it is at

vars == <<immutable_config_values, seen_prefixes, environ, ret, call, pre,
          ncalls, nloads, twin, stored_by, threads>>

\* the threads that call load
Threads == {1, 2}

\* a thread that is in no call
Idle == [pc |-> "idle", prefix |-> <<>>, opts |-> EmptyDict,
         file |-> [kind |-> "none", d |-> EmptyDict], conf |-> EmptyDict,
         is_none |-> FALSE, raised |-> FALSE]

\* immutable_config_values: Optional[ConfigStore] = None
NoStore == [none |-> TRUE, d |-> EmptyDict]

StoreOf(d) == [none |-> FALSE, d |-> d]

(***************************************************************************)
(* opts2env                                                                *)
(***************************************************************************)
\* the null byte
NUL == "\\0"

Chars(s) == {s[i] : i \in 1..Len(s)}

\* os.environ[name] = value raises ValueError for an embedded null byte and
\* for an illegal name
PutenvRaises(name, value) ==
  NUL \in Chars(name) \/ NUL \in Chars(value) \/ "=" \in Chars(name)

StripChars == {"-", "<", ">", " "}

\* k.upper().strip("-<> ").replace("-", "_")
NormName(k) == Replace(Strip(Upper(k), StripChars), <<"-">>, <<"_">>)

\* prefix + "_" + the normalized name, prefix already uppercased
EnvName(prefix, k) == prefix \o <<"_">> \o NormName(k)

\* str(v) for every value, True included
EnvValue_str(v) == v.s

\* "1" if v is True else str(v)
EnvValue(v) == IF v = PyTrue THEN <<"1">> ELSE v.s

\* the for loop of opts2env over opts.items(); stops where the write raises
RECURSIVE opts2envLoop(_, _, _)
opts2envLoop(items, prefix, env) ==
  IF items = <<>> THEN [raised |-> FALSE, env |-> env]
  ELSE LET k    == Head(items).k
           v    == Head(items).v
           name == EnvName(prefix, k)
       IN IF v # PyFalse /\ v # PyNone
          THEN IF PutenvRaises(name, EnvValue(v))
               THEN [raised |-> TRUE, env |-> env]
               ELSE opts2envLoop(Tail(items), prefix,
                                 DictSet(env, name, EnvValue(v)))
          ELSE opts2envLoop(Tail(items), prefix, env)

\* the loop with the prefix as given, not uppercased
opts2env_raw(opts, prefix, env) == opts2envLoop(opts, prefix, env)

opts2env(opts, prefix, env) == opts2envLoop(opts, Upper(prefix), env)

(***************************************************************************)
(* load_from_env                                                           *)
(***************************************************************************)
Falsey == { <<"0">>, <<"f","a","l","s","e">>, <<"n","o">> }

\* False if str(v).lower() in ["0", "false", "no"] else v
Coerce(v) == IF Lower(v) \in Falsey THEN PyFalse ELSE Str(v)

\* k.replace(prefix + "_", "")
BareKey(k, prefix) == Replace(k, prefix \o <<"_">>, <<>>)

\* the for loop of load_from_env over os.environ.items()
RECURSIVE load_from_envLoop(_, _, _)
load_from_envLoop(items, prefix, config) ==
  IF items = <<>> THEN config
  ELSE LET k == Head(items).k
           v == Head(items).v
       IN IF ~StartsWith(k, prefix \o <<"_">>)
          THEN load_from_envLoop(Tail(items), prefix, config)
          ELSE load_from_envLoop(Tail(items), prefix,
                                 DictSet(config, BareKey(k, prefix), Coerce(v)))

load_from_env(prefix, env) == load_from_envLoop(env, Upper(prefix), EmptyDict)

(***************************************************************************)
(* parse_config_file                                                       *)
(***************************************************************************)
\* fname=None
NoFile == [kind |-> "none", d |-> EmptyDict]

\* a file name that open() or yaml.full_load fails on
BadFile == [kind |-> "bad", d |-> EmptyDict]

\* a file name whose document parses into the mapping d
Doc(d) == [kind |-> "doc", d |-> d]

\* {k.upper(): v for k, v in parse_config_file(fname).items()}
RECURSIVE UpperKeys(_)
UpperKeys(d) ==
  IF d = <<>> THEN EmptyDict
  ELSE DictUpdate(<<[k |-> Upper(Head(d).k), v |-> Head(d).v]>>,
                  UpperKeys(Tail(d)))

(***************************************************************************)
(* get, the part after the store exists                                    *)
(***************************************************************************)
\* get() returning immutable_config_values itself instead of a copy
get_all_alias(store) == [kind |-> "store", d |-> EmptyDict]

\* immutable_config_values.copy(): a new mapping with the same entries
get_all(store) == [kind |-> "copy", d |-> store.d]

\* immutable_config_values.get(key.upper(), default)
get_key(store, key, default) ==
  [kind |-> "value",
   d    |-> <<[k |-> Upper(key),
               v |-> IF HasKey(store.d, Upper(key))
                     THEN Lookup(store.d, Upper(key)) ELSE default]>>]

(***************************************************************************)
(* load                                                                    *)
(***************************************************************************)
\* conf = get() if the store exists and the prefix was seen, else {}
load_seed(store, seen, prefix) ==
  IF ~store.none /\ prefix \in seen THEN get_all(store).d ELSE EmptyDict

\* {k: v for k, v in conf.items() if type(v) is str}
StrConf(conf) == SelectSeq(conf, LAMBDA e : e.v.kind = "str")

\* load assigning OrderedDict(conf) on every call instead of updating
load_merge_replace(store, conf) == StoreOf(conf)

\* OrderedDict(conf) when there is no store, else store.update(conf)
load_merge(store, conf) ==
  IF store.none THEN StoreOf(conf) ELSE StoreOf(DictUpdate(store.d, conf))

\* load creating the store before it parses the file and projects
load_raise_created(store, seen, env) ==
  [raised |-> TRUE, store |-> StoreOf(store.d), seen |-> seen, env |-> env]

\* the outcome of a load that raised with the environment as env
load_raise(store, seen, env) ==
  [raised |-> TRUE, store |-> store, seen |-> seen, env |-> env]

\* load(opts, prefix, fname) run on (store, seen, env)
load(store, seen, env, opts, prefix, file) ==
  LET seed     == load_seed(store, seen, prefix)
      conf1    == IF file.kind = "none" THEN seed
                  ELSE DictUpdate(seed, UpperKeys(file.d))
      str_conf == DictUpdate(StrConf(conf1), opts)
      proj     == opts2env(str_conf, prefix, env)
      conf2    == DictUpdate(conf1, load_from_env(prefix, proj.env))
  IN IF file.kind = "bad" THEN load_raise(store, seen, env)
     ELSE IF proj.raised THEN load_raise(store, seen, proj.env)
     ELSE [raised |-> FALSE,
           store  |-> load_merge(store, conf2),
           seen   |-> seen \cup {prefix},
           env    |-> proj.env]

\* return immutable_config_values: the store object itself, so its entries
\* are the store's
load_ret == [kind |-> "store", d |-> EmptyDict]

\* the caller's handle on what a call returned: by is the call
Returned(by, r) == [by |-> by, kind |-> r.kind, d |-> r.d]

\* a call that raised returns nothing
NoRet == [by |-> "none", kind |-> "none", d |-> EmptyDict]

(***************************************************************************)
(* Inputs                                                                  *)
(***************************************************************************)
\* calls per run of Spec
MaxCalls == 3

\* variables set before the load, and loads, per run of SpecPrecedence
MaxPreset == 1
MaxLoads == 1

\* get()'s own arguments to load: prefix="CFE", fname="config.yml"
DefaultPrefix == <<"C","F","E">>

\* prefixes as callers spell them
Prefixes == { <<"a">>, <<"b">> }

\* option names as docopt produces them: '--x' and 'a-x'
OptNames == { <<"-","-","x">>, <<"a","-","x">> }

\* option values: 'v', 'No', a string with a null byte, True, False, None
OptValues == { Str(<<"v">>), Str(<<"N","o">>), Str(<<"v", NUL>>),
               PyTrue, PyFalse, PyNone }

\* the options mappings: empty, or one entry
Options ==
  {EmptyDict} \cup { <<[k |-> n, v |-> v]>> : n \in OptNames, v \in OptValues }

\* the options mappings of Spec: string values only
FewOptions ==
  { o \in Options : o = EmptyDict \/ o[1].v \in {Str(<<"v">>), Str(<<"v", NUL>>)} }

DocXStr == Doc(<<[k |-> <<"x">>, v |-> Str(<<"f">>)]>>)
DocXMap == Doc(<<[k |-> <<"x">>, v |-> PyMap]>>)
DocAXStr == Doc(<<[k |-> <<"a","_","x">>, v |-> Str(<<"f">>)]>>)

\* a file key that is no variable name as it stands: {x-y: 'No'}
DocDashNo == Doc(<<[k |-> <<"x","-","y">>, v |-> Str(<<"N","o">>)]>>)

\* the files: none given, unreadable, {x: 'f'}, {x: {...}}, {a_x: 'f'},
\* {x-y: 'No'}
Files == { NoFile, BadFile, DocXStr, DocXMap, DocAXStr, DocDashNo }

\* the files of Spec
FewFiles == { NoFile, BadFile, DocXStr }

\* what config.yml may be when get() loads it
ConfigYml == { BadFile, DocXStr }

\* variables set from outside load: A_X, A_A_X, B_X
EnvNames == { <<"A","_","X">>, <<"A","_","A","_","X">>, <<"B","_","X">> }
EnvValues == { <<"e">> }

\* the variables a process may find set when it starts: those, and A_x, whose
\* key part is in lower case
PresetNames == EnvNames \cup { <<"A","_","x">> }

\* keys passed to get; the empty key takes the whole-store branch
GetKeys == { <<>>, <<"x">> }

\* entries a caller writes into a mapping it was handed
CallerKeys == { <<"X">>, <<"Z">> }
CallerValues == { Str(<<"m">>) }

(***************************************************************************)
(* Actions                                                                 *)
(***************************************************************************)
Snapshot == [store |-> immutable_config_values, seen |-> seen_prefixes,
             env |-> environ, ret |-> ret, stored |-> stored_by]

CallRec(op, prefix, opts, file, key, raised) ==
  [op |-> op, prefix |-> prefix, opts |-> opts, file |-> file, key |-> key,
   raised |-> raised]

Init ==
  /\ immutable_config_values = NoStore
  /\ seen_prefixes = {}
  /\ environ = EmptyDict
  /\ ret = NoRet
  /\ call = CallRec("init", <<>>, EmptyDict, NoFile, <<>>, FALSE)
  /\ pre = [store |-> NoStore, seen |-> {}, env |-> EmptyDict, ret |-> NoRet,
            stored |-> {}]
  /\ stored_by = {}
  /\ threads = [t \in Threads |-> Idle]
  /\ ncalls = 0
  /\ nloads = 0
  /\ twin = [store |-> NoStore, seen |-> {}, env |-> EmptyDict, prefix |-> <<>>]

\* config.load(opts, prefix, fname)
Load(opts, prefix, file) ==
  /\ LET r == load(immutable_config_values, seen_prefixes, environ,
                   opts, prefix, file)
     IN /\ immutable_config_values' = r.store
        /\ seen_prefixes' = r.seen
        /\ environ' = r.env
        /\ ret' = IF r.raised THEN NoRet ELSE Returned("load", load_ret)
        /\ call' = CallRec("load", prefix, opts, file, <<>>, r.raised)
  /\ pre' = Snapshot
  /\ ncalls' = ncalls + 1
  /\ nloads' = nloads + 1

\* config.get(key): loads with the defaults first when there is no store
Get(key, yml) ==
  /\ LET r == IF immutable_config_values.none
              THEN load(immutable_config_values, seen_prefixes, environ,
                        EmptyDict, DefaultPrefix, yml)
              ELSE [raised |-> FALSE, store |-> immutable_config_values,
                    seen |-> seen_prefixes, env |-> environ]
     IN /\ immutable_config_values' = r.store
        /\ seen_prefixes' = r.seen
        /\ environ' = r.env
        /\ ret' = IF r.raised THEN NoRet
                  ELSE IF key # <<>>
                       THEN Returned("get", get_key(r.store, key, PyNone))
                       ELSE Returned("get", get_all(r.store))
        /\ call' = CallRec("get", <<>>, EmptyDict, yml, key, r.raised)
  /\ pre' = Snapshot
  /\ ncalls' = ncalls + 1
  /\ UNCHANGED nloads

\* the caller assigns returned[k] = v on the mapping the last call returned
SetItem(k, v) ==
  /\ ret.kind \in {"store", "copy"}
  /\ IF ret.kind = "store"
     THEN /\ immutable_config_values' =
               StoreOf(DictSet(immutable_config_values.d, k, v))
          /\ ret' = ret
     ELSE /\ ret' = [ret EXCEPT !.d = DictSet(ret.d, k, v)]
          /\ immutable_config_values' = immutable_config_values
  /\ call' = CallRec("setitem", <<>>, EmptyDict, NoFile, k, FALSE)
  /\ pre' = Snapshot
  /\ ncalls' = ncalls + 1
  /\ UNCHANGED <<seen_prefixes, environ, nloads>>

\* the caller runs del returned[k] on the mapping the last call returned
DelItem(k) ==
  /\ ret.kind \in {"store", "copy"}
  /\ IF ret.kind = "store"
     THEN /\ HasKey(immutable_config_values.d, k)
          /\ immutable_config_values' =
               StoreOf(DictDel(immutable_config_values.d, k))
          /\ ret' = ret
     ELSE /\ HasKey(ret.d, k)
          /\ ret' = [ret EXCEPT !.d = DictDel(ret.d, k)]
          /\ immutable_config_values' = immutable_config_values
  /\ call' = CallRec("delitem", <<>>, EmptyDict, NoFile, k, FALSE)
  /\ pre' = Snapshot
  /\ ncalls' = ncalls + 1
  /\ UNCHANGED <<seen_prefixes, environ, nloads>>

\* os.environ[name] = value, set outside load
Setenv(name, value) ==
  /\ environ' = DictSet(environ, name, value)
  /\ call' = CallRec("setenv", <<>>, EmptyDict, NoFile, name, FALSE)
  /\ pre' = Snapshot
  /\ ncalls' = ncalls + 1
  /\ UNCHANGED <<immutable_config_values, seen_prefixes, ret, nloads>>

(***************************************************************************)
(* Spec: any MaxCalls calls of load, get, the caller's writes to returned  *)
(* mappings and to the environment                                         *)
(***************************************************************************)
Next ==
  \/ /\ ncalls < MaxCalls
     /\ \E o \in FewOptions, p \in Prefixes, f \in FewFiles : Load(o, p, f)
     /\ UNCHANGED <<twin, stored_by, threads>>
  \/ /\ ncalls < MaxCalls
     /\ \E k \in GetKeys :
          \E y \in (IF immutable_config_values.none THEN ConfigYml ELSE {NoFile}) :
            Get(k, y)
     /\ UNCHANGED <<twin, stored_by, threads>>
  \/ /\ ncalls < MaxCalls
     /\ \E k \in CallerKeys, v \in CallerValues : SetItem(k, v)
     /\ UNCHANGED <<twin, stored_by, threads>>
  \/ /\ ncalls < MaxCalls
     /\ \E k \in CallerKeys : DelItem(k)
     /\ UNCHANGED <<twin, stored_by, threads>>
  \/ /\ ncalls < MaxCalls
     /\ \E n \in EnvNames, v \in EnvValues : Setenv(n, v)
     /\ UNCHANGED <<twin, stored_by, threads>>

Spec == Init /\ [][Next]_vars

(***************************************************************************)
(* SpecPrecedence: a process start: the environment as it is found, then   *)
(* load(s) with every kind of option value and file value                  *)
(***************************************************************************)
NextPrecedence ==
  \/ /\ nloads = 0
     /\ ncalls < MaxPreset
     /\ \E n \in PresetNames, v \in EnvValues : Setenv(n, v)
     /\ UNCHANGED <<twin, stored_by, threads>>
  \/ /\ nloads < MaxLoads
     /\ \E o \in Options, p \in Prefixes, f \in Files : Load(o, p, f)
     /\ UNCHANGED <<twin, stored_by, threads>>

SpecPrecedence == Init /\ [][NextPrecedence]_vars

(***************************************************************************)
(* SpecCase: two processes make the same calls; the twin spells each       *)
(* prefix in a letter case of its own                                      *)
(***************************************************************************)
\* calls per run of SpecCase
MaxCaseCalls == 3

\* letter-case spellings of the prefixes
Spellings == { <<"a">>, <<"A">>, <<"b">> }

CaseOptions == { EmptyDict, <<[k |-> <<"-","-","x">>, v |-> Str(<<"v">>)]>> }

CaseFiles == { NoFile, DocXStr }

\* config.load(opts, p, fname) here and config.load(opts, q, fname) in the twin
LoadTwin(opts, p, q, file) ==
  /\ Load(opts, p, file)
  /\ LET r == load(twin.store, twin.seen, twin.env, opts, q, file)
     IN twin' = [store |-> r.store, seen |-> r.seen, env |-> r.env,
                 prefix |-> q]

\* os.environ[name] = value in both processes
SetenvTwin(name, value) ==
  /\ Setenv(name, value)
  /\ twin' = [twin EXCEPT !.env = DictSet(twin.env, name, value),
                          !.prefix = <<>>]

NextCase ==
  \/ /\ ncalls < MaxCaseCalls
     /\ \E o \in CaseOptions, p \in Spellings, f \in CaseFiles :
          \E q \in { s \in Spellings : Upper(s) = Upper(p) } :
            LoadTwin(o, p, q, f)
     /\ UNCHANGED <<stored_by, threads>>
  \/ /\ ncalls < MaxCaseCalls
     /\ \E n \in EnvNames, v \in EnvValues : SetenvTwin(n, v)
     /\ UNCHANGED <<stored_by, threads>>

SpecCase == Init /\ [][NextCase]_vars

(***************************************************************************)
(* SpecEnv: the environment as it is found, then one call of opts2env or   *)
(* of load_from_env on it                                                  *)
(***************************************************************************)
\* variables set before the call, per run of SpecEnv
MaxEnvPreset == 2

\* names found set: A_X, A_A_X, AB_X, B_X
FoundNames == { <<"A","_","X">>, <<"A","_","A","_","X">>,
                <<"A","B","_","X">>, <<"B","_","X">> }

\* values found set: 'e', 'No'
FoundValues == { <<"e">>, <<"N","o">> }

\* option names that normalize to the same name: '--x' and '<x>'
SameNames == { <<"-","-","x">>, <<"<","x",">">> }

\* option values: 'v', the empty string, True, False, None
PlainValues == { Str(<<"v">>), Str(<<>>), PyTrue, PyFalse, PyNone }

\* the options mappings with up to two entries
TwoOptions ==
  {EmptyDict}
  \cup { <<[k |-> n, v |-> v]>> : n \in SameNames, v \in PlainValues }
  \cup { <<[k |-> n[1], v |-> v[1]], [k |-> n[2], v |-> v[2]]>> :
           n \in { m \in SameNames \X SameNames : m[1] # m[2] },
           v \in PlainValues \X PlainValues }

\* opts2env(opts, prefix)
Project(opts, prefix) ==
  /\ LET r == opts2env(opts, prefix, environ)
     IN /\ environ' = r.env
        /\ call' = CallRec("opts2env", prefix, opts, NoFile, <<>>, r.raised)
  /\ ret' = NoRet
  /\ pre' = Snapshot
  /\ ncalls' = ncalls + 1
  /\ UNCHANGED <<immutable_config_values, seen_prefixes, nloads>>

\* load_from_env(prefix)
ReadEnv(prefix) ==
  /\ ret' = Returned("load_from_env",
                     [kind |-> "copy", d |-> load_from_env(prefix, environ)])
  /\ call' = CallRec("load_from_env", prefix, EmptyDict, NoFile, <<>>, FALSE)
  /\ pre' = Snapshot
  /\ ncalls' = ncalls + 1
  /\ UNCHANGED <<immutable_config_values, seen_prefixes, environ, nloads>>

NextEnv ==
  \/ /\ call.op \in {"init", "setenv"}
     /\ ncalls < MaxEnvPreset
     /\ \E n \in FoundNames, v \in FoundValues : Setenv(n, v)
     /\ UNCHANGED <<twin, stored_by, threads>>
  \/ /\ call.op \in {"init", "setenv"}
     /\ \E o \in TwoOptions, p \in Prefixes : Project(o, p)
     /\ UNCHANGED <<twin, stored_by, threads>>
  \/ /\ call.op \in {"init", "setenv"}
     /\ \E p \in Prefixes : ReadEnv(p)
     /\ UNCHANGED <<twin, stored_by, threads>>

SpecEnv == Init /\ [][NextEnv]_vars

(***************************************************************************)
(* SpecRefresh: the environment as it is found, then loads, first ones and *)
(* refreshes, with a record of which prefix's loads stored which keys      *)
(***************************************************************************)
\* variables set before the first load, per run of SpecRefresh
MaxRefreshPreset == 1

\* loads per run of SpecRefresh
MaxRefreshLoads == 3

RefreshOptions == { EmptyDict, <<[k |-> <<"-","-","x">>, v |-> Str(<<"v">>)]>> }

RefreshFiles == { NoFile, DocXStr, DocXMap }

\* the keys of conf at line 114: those it was seeded with, those of the file
\* and those read back from the environment env the projection left
StoredKeys(store, seen, env, prefix, file) ==
  Keys(load_seed(store, seen, prefix))
    \cup (IF file.kind = "doc" THEN Keys(UpperKeys(file.d)) ELSE {})
    \cup Keys(load_from_env(prefix, env))

\* config.load(opts, prefix, fname), recording the keys it stored
LoadStoring(opts, prefix, file) ==
  /\ Load(opts, prefix, file)
  /\ stored_by' =
       IF call'.raised THEN stored_by
       ELSE stored_by \cup
              { <<prefix, K>> :
                  K \in StoredKeys(immutable_config_values, seen_prefixes,
                                   environ', prefix, file) }

NextRefresh ==
  \/ /\ nloads = 0
     /\ ncalls < MaxRefreshPreset
     /\ \E n \in EnvNames, v \in EnvValues : Setenv(n, v)
     /\ UNCHANGED <<twin, stored_by, threads>>
  \/ /\ nloads < MaxRefreshLoads
     /\ \E o \in RefreshOptions, p \in Prefixes, f \in RefreshFiles :
          LoadStoring(o, p, f)
     /\ UNCHANGED <<twin, threads>>

SpecRefresh == Init /\ [][NextRefresh]_vars

(***************************************************************************)
(* SpecReload: the environment as it is found, loads, and then the last    *)
(* load made once more with the same arguments                             *)
(***************************************************************************)
\* variables set before the first load, per run of SpecReload
MaxReloadPreset == 2

\* loads before the repeated one, per run of SpecReload
MaxReloadLoads == 2

\* variables found set: A_X, A_A_X, with the values 'e', 'g'
ReloadNames == { <<"A","_","X">>, <<"A","_","A","_","X">> }
ReloadValues == { <<"e">>, <<"g">> }

\* options: none, {'--x': 'v'}, {'a-x': 'w'}
ReloadOptions == { EmptyDict,
                   <<[k |-> <<"-","-","x">>, v |-> Str(<<"v">>)]>>,
                   <<[k |-> <<"a","-","x">>, v |-> Str(<<"w">>)]>> }

ReloadFiles == { NoFile, DocXStr, DocDashNo }

\* config.load with the arguments of the load just made, which was the
\* first load of its prefix
Reload ==
  /\ call.op = "load"
  /\ call.prefix \notin pre.seen
  /\ LET r == load(immutable_config_values, seen_prefixes, environ,
                   call.opts, call.prefix, call.file)
     IN /\ immutable_config_values' = r.store
        /\ seen_prefixes' = r.seen
        /\ environ' = r.env
        /\ ret' = IF r.raised THEN NoRet ELSE Returned("load", load_ret)
        /\ call' = CallRec("reload", call.prefix, call.opts, call.file, <<>>,
                           r.raised)
  /\ pre' = Snapshot
  /\ ncalls' = ncalls + 1
  /\ nloads' = nloads + 1

NextReload ==
  \/ /\ nloads = 0
     /\ ncalls < MaxReloadPreset
     /\ \E n \in ReloadNames, v \in ReloadValues : Setenv(n, v)
     /\ UNCHANGED <<twin, stored_by, threads>>
  \/ /\ nloads < MaxReloadLoads
     /\ call.op # "reload"
     /\ \E o \in ReloadOptions, p \in Prefixes, f \in ReloadFiles : Load(o, p, f)
     /\ UNCHANGED <<twin, stored_by, threads>>
  \/ /\ Reload
     /\ UNCHANGED <<twin, stored_by, threads>>

SpecReload == Init /\ [][NextReload]_vars

(***************************************************************************)
(* SpecConcurrent: two threads call load with different prefixes; the      *)
(* interpreter may switch threads between any two statements of load       *)
(***************************************************************************)
\* loads made before the threads start, per run of SpecConcurrent
MaxPriorLoads == 1

\* the options of thread 1: none or {'--x': 'v'}; of thread 2: none or
\* {'--y': 'w'}
ThreadOptions(t) ==
  IF t = 1 THEN { EmptyDict, <<[k |-> <<"-","-","x">>, v |-> Str(<<"v">>)]>> }
  ELSE { EmptyDict, <<[k |-> <<"-","-","y">>, v |-> Str(<<"w">>)]>> }

ThreadFiles == { NoFile, BadFile, DocXStr }

\* the thread is at the statement pc of its call
At(t, pc) == threads[t].pc = pc

\* the thread's call goes on at pc with conf as its local mapping
GoOn(t, pc, conf) ==
  threads' = [threads EXCEPT ![t].pc = pc, ![t].conf = conf]

\* both threads enter load, thread 1 with prefix 'a', thread 2 with 'b'
Spawn(o1, f1, o2, f2) ==
  /\ \A t \in Threads : At(t, "idle")
  /\ threads' = [t \in Threads |->
                   [Idle EXCEPT !.pc = "check",
                                !.prefix = IF t = 1 THEN <<"a">> ELSE <<"b">>,
                                !.opts = IF t = 1 THEN o1 ELSE o2,
                                !.file = IF t = 1 THEN f1 ELSE f2]]
  /\ call' = CallRec("spawn", <<>>, EmptyDict, NoFile, <<>>, FALSE)
  /\ pre' = Snapshot
  /\ ncalls' = ncalls + 1
  /\ UNCHANGED <<immutable_config_values, seen_prefixes, environ, ret, nloads>>

\* lines 96-98: conf = {}, or get() when the prefix was seen
CheckSeen(t) ==
  /\ At(t, "check")
  /\ GoOn(t, "parse",
          load_seed(immutable_config_values, seen_prefixes, threads[t].prefix))
  /\ UNCHANGED <<immutable_config_values, seen_prefixes, environ, ret, call,
                 pre, ncalls, nloads>>

\* line 100: conf.update of the parsed file, or the exception of the parse
ParseFile(t) ==
  /\ At(t, "parse")
  /\ LET f == threads[t].file
     IN IF f.kind = "bad"
        THEN threads' = [threads EXCEPT ![t].pc = "done", ![t].raised = TRUE]
        ELSE GoOn(t, "project",
                  IF f.kind = "none" THEN threads[t].conf
                  ELSE DictUpdate(threads[t].conf, UpperKeys(f.d)))
  /\ UNCHANGED <<immutable_config_values, seen_prefixes, environ, ret, call,
                 pre, ncalls, nloads>>

\* lines 101-104: opts2env(str_conf, prefix)
ProjectConf(t) ==
  /\ At(t, "project")
  /\ LET r == opts2env(DictUpdate(StrConf(threads[t].conf), threads[t].opts),
                       threads[t].prefix, environ)
     IN /\ environ' = r.env
        /\ IF r.raised
           THEN threads' = [threads EXCEPT ![t].pc = "done", ![t].raised = TRUE]
           ELSE GoOn(t, "reread", threads[t].conf)
  /\ UNCHANGED <<immutable_config_values, seen_prefixes, ret, call, pre,
                 ncalls, nloads>>

\* line 105: conf.update(load_from_env(prefix))
RereadEnv(t) ==
  /\ At(t, "reread")
  /\ GoOn(t, "test",
          DictUpdate(threads[t].conf, load_from_env(threads[t].prefix, environ)))
  /\ UNCHANGED <<immutable_config_values, seen_prefixes, environ, ret, call,
                 pre, ncalls, nloads>>

\* line 108: if immutable_config_values is None
TestNone(t) ==
  /\ At(t, "test")
  /\ threads' = [threads EXCEPT ![t].pc = "merge",
                                ![t].is_none = immutable_config_values.none]
  /\ UNCHANGED <<immutable_config_values, seen_prefixes, environ, ret, call,
                 pre, ncalls, nloads>>

\* line 109 or line 114, as the test of line 108 came out
CreateOrMerge(t) ==
  /\ At(t, "merge")
  /\ immutable_config_values' =
       IF threads[t].is_none THEN StoreOf(threads[t].conf)
       ELSE StoreOf(DictUpdate(immutable_config_values.d, threads[t].conf))
  /\ GoOn(t, "mark", threads[t].conf)
  /\ UNCHANGED <<seen_prefixes, environ, ret, call, pre, ncalls, nloads>>

\* lines 115-116: seen_prefixes.add(prefix) and the return
MarkSeen(t) ==
  /\ At(t, "mark")
  /\ seen_prefixes' = seen_prefixes \cup {threads[t].prefix}
  /\ GoOn(t, "done", threads[t].conf)
  /\ UNCHANGED <<immutable_config_values, environ, ret, call, pre, ncalls,
                 nloads>>

NextConcurrent ==
  \/ /\ nloads < MaxPriorLoads
     /\ \A t \in Threads : At(t, "idle")
     /\ \E o \in RefreshOptions, p \in Prefixes : Load(o, p, NoFile)
     /\ UNCHANGED <<twin, stored_by, threads>>
  \/ /\ \E o1 \in ThreadOptions(1), o2 \in ThreadOptions(2) :
          \E f1 \in ThreadFiles, f2 \in ThreadFiles : Spawn(o1, f1, o2, f2)
     /\ UNCHANGED <<twin, stored_by>>
  \/ /\ \E t \in Threads : CheckSeen(t)
     /\ UNCHANGED <<twin, stored_by>>
  \/ /\ \E t \in Threads : ParseFile(t)
     /\ UNCHANGED <<twin, stored_by>>
  \/ /\ \E t \in Threads : ProjectConf(t)
     /\ UNCHANGED <<twin, stored_by>>
  \/ /\ \E t \in Threads : RereadEnv(t)
     /\ UNCHANGED <<twin, stored_by>>
  \/ /\ \E t \in Threads : TestNone(t)
     /\ UNCHANGED <<twin, stored_by>>
  \/ /\ \E t \in Threads : CreateOrMerge(t)
     /\ UNCHANGED <<twin, stored_by>>
  \/ /\ \E t \in Threads : MarkSeen(t)
     /\ UNCHANGED <<twin, stored_by>>

SpecConcurrent == Init /\ [][NextConcurrent]_vars

(***************************************************************************)
(* Claims                                                                  *)
(***************************************************************************)
\* what get(key) returns in the current state, the store existing
GetNow(key) == get_key(immutable_config_values, key, PyNone).d[1].v

\* the last call was a load that returned
Loaded == call.op = "load" /\ ~call.raised

\* the uppercased keys of the file of the last call
FileKeys == IF call.file.kind = "doc" THEN Keys(UpperKeys(call.file.d)) ELSE {}

\* the values opts2env projects: neither False nor None
Projected(v) == v # PyFalse /\ v # PyNone

\* the value an options entry stands for once it went through the
\* environment: "1" for True, else str(v), coerced
OptionDerived(v) == Coerce(EnvValue(v))

\* the value a file entry stands for: a string is coerced like any other
FileDerived(v) == IF v.kind = "str" THEN Coerce(v.s) ELSE v

\* PREFIX_KEY, as the environment spells it
VarName(prefix, key) == Upper(prefix) \o <<"_">> \o key

\* C1: options beat the file.  After a load that returned, for every options
\* entry whose normalized name is also a key of the file mapping, get(key)
\* is the value derived from the options entry.  Stated for the option values
\* that opts2env projects (strings and True); a False or None entry is
\* skipped by opts2env and leaves the file value in place.
C1_OptionsBeatFile ==
  Loaded =>
    \A i \in 1..Len(call.opts) :
      (NormName(call.opts[i].k) \in FileKeys /\ Projected(call.opts[i].v))
        => GetNow(NormName(call.opts[i].k)) = OptionDerived(call.opts[i].v)

\* C2: the file beats the pre-existing environment.  After a load that
\* returned, a key of the file mapping that no options entry names and whose
\* variable PREFIX_K was set before the call holds the value that comes from
\* the file, whether a string, a boolean or a nested mapping.
C2_FileBeatsEnvironment ==
  Loaded =>
    \A K \in FileKeys :
      ( /\ \A i \in 1..Len(call.opts) : NormName(call.opts[i].k) # K
        /\ HasKey(pre.env, VarName(call.prefix, K)) )
        => GetNow(K) = FileDerived(Lookup(UpperKeys(call.file.d), K))

\* C3: options beat the pre-existing environment.  After a load that
\* returned, for every options entry whose variable PREFIX_KEY was set before
\* the call, the store holds the coerced options value under that key and the
\* variable holds the options value.  Stated for the option values that
\* opts2env projects (strings and True).
C3_OptionsBeatEnvironment ==
  Loaded =>
    \A i \in 1..Len(call.opts) :
      LET K == NormName(call.opts[i].k)
          v == call.opts[i].v
      IN (Projected(v) /\ HasKey(pre.env, VarName(call.prefix, K)))
           => /\ GetNow(K) = OptionDerived(v)
              /\ Lookup(environ, VarName(call.prefix, K)) = EnvValue(v)

\* C9: every key given to a load ends up in the store.  After a load that
\* returned, the normalized name of every options entry whose value is
\* neither False nor None is a key of the store, and so is every uppercased
\* key of the file mapping.
C9_GivenKeysStored ==
  Loaded =>
    /\ \A i \in 1..Len(call.opts) :
         Projected(call.opts[i].v)
           => HasKey(immutable_config_values.d, NormName(call.opts[i].k))
    /\ \A K \in FileKeys : HasKey(immutable_config_values.d, K)

\* the last call was the caller writing to the mapping a call returned
Mutated == call.op \in {"setitem", "delitem"}

\* C4: a failed load does not mutate the shared store.  When load, or the
\* load that get starts when there is no store, raises, the store (and
\* whether it exists) and the seen-prefix set are what they were before.
C4_FailedLoadKeepsStore ==
  call.raised =>
    /\ immutable_config_values = pre.store
    /\ seen_prefixes = pre.seen

\* C4 witness: a load raised while projecting, after it had written to the
\* environment, with a store in place
C4_Witness ==
  /\ call.op = "load" /\ call.raised
  /\ ~pre.store.none /\ pre.store.d # EmptyDict
  /\ environ # pre.env

\* C5: the mapping load returns is a copy of the store: writing to it or
\* deleting from it leaves the shared store as it was.
C5_LoadReturnsCopy ==
  (Mutated /\ pre.ret.by = "load") => immutable_config_values = pre.store

\* C6: mutating the mapping get() returned does not change the shared store,
\* and get() afterwards returns what it returned before the mutation.
C6_GetReturnsCopy ==
  (Mutated /\ pre.ret.by = "get") =>
    /\ immutable_config_values = pre.store
    /\ get_all(immutable_config_values).d = get_all(pre.store).d

\* C6 witness: the caller wrote an entry into the mapping get() returned and
\* that mapping now differs from the store
C6_Witness ==
  /\ call.op = "setitem" /\ pre.ret.by = "get"
  /\ ~HasKey(immutable_config_values.d, call.key)
  /\ HasKey(ret.d, call.key)
  /\ immutable_config_values.d # EmptyDict

\* C7: the store only grows.  Once the store exists, its keys after a load
\* or get call include its keys before the call, and the store still exists.
C7_StoreOnlyGrows ==
  (call.op \in {"load", "get"} /\ ~pre.store.none) =>
    /\ ~immutable_config_values.none
    /\ Keys(pre.store.d) \subseteq Keys(immutable_config_values.d)

\* C7 witness: a first load of a prefix added a key to a store that held
\* other keys
C7_Witness ==
  /\ Loaded /\ call.prefix \notin pre.seen
  /\ pre.store.d # EmptyDict
  /\ Keys(pre.store.d) # Keys(immutable_config_values.d)

\* the variable name with its leading PREFIX_ segment removed
LeadingRemoved(name, prefix) == SubSeq(name, Len(prefix) + 2, Len(name))

\* the bare keys of the variables of the prefix in env
BareKeysOf(env, prefix) ==
  { LeadingRemoved(n, prefix) :
      n \in { m \in Keys(env) : StartsWith(m, Upper(prefix) \o <<"_">>) } }

\* C8: a load leaves other prefixes' data alone.  After a load that
\* returned, every key the store held before that is neither a key of the
\* file mapping nor the bare key of a variable of the loaded prefix holds the
\* value it held before.
C8_OtherKeysKept ==
  (Loaded /\ ~pre.store.none) =>
    \A K \in Keys(pre.store.d) :
      (K \notin FileKeys /\ K \notin BareKeysOf(environ, call.prefix))
        => /\ HasKey(immutable_config_values.d, K)
           /\ Lookup(immutable_config_values.d, K) = Lookup(pre.store.d, K)

\* C10: the prefix is not case-sensitive.  Whatever letter case the twin
\* spells the prefixes in, after every call both processes hold the same
\* store and the same environment.
C10_PrefixCaseInsensitive ==
  /\ twin.store.none = immutable_config_values.none
  /\ SameMapping(twin.store.d, immutable_config_values.d)
  /\ SameMapping(twin.env, environ)

\* C11: store keys are always uppercase.  Whatever variables the environment
\* holds, every key of the shared store equals its own uppercase form, so
\* that get finds it whatever the letter case of the key passed.
C11_StoreKeysUppercase ==
  \A K \in Keys(immutable_config_values.d) : K = Upper(K)

\* C17: coercion applies whatever the origin.  After loads that returned, no
\* value of the shared store is a string whose lowercase form is "0",
\* "false" or "no".
C17_NoFalseyStrings ==
  Loaded =>
    \A K \in Keys(immutable_config_values.d) :
      LET v == Lookup(immutable_config_values.d, K)
      IN v.kind = "str" => Lower(v.s) \notin Falsey

\* the last call was opts2env and it returned
Projecting == call.op = "opts2env" /\ ~call.raised

\* the variable an options entry of the last call is projected to
VarOf(e) == VarName(call.prefix, NormName(e.k))

\* the text the claim gives a projected value: "1" for True, else str(value)
TextOf(v) == IF v = PyTrue THEN <<"1">> ELSE v.s

\* the variable is set the same, or unset the same, as before the last call
SameAsBefore(n) ==
  /\ HasKey(environ, n) = HasKey(pre.env, n)
  /\ HasKey(environ, n) => Lookup(environ, n) = Lookup(pre.env, n)

\* a False or None entry writes nothing: its variable is as before the call
\* unless a projected entry has the same variable
SkippedWriteNothing ==
  \A i \in 1..Len(call.opts) :
    ( /\ ~Projected(call.opts[i].v)
      /\ \A j \in 1..Len(call.opts) :
           Projected(call.opts[j].v) => VarOf(call.opts[j]) # VarOf(call.opts[i]) )
      => SameAsBefore(VarOf(call.opts[i]))

\* C13 as stated: after opts2env every entry whose value is True has its
\* variable set to "1", every entry with another value but False and None,
\* the empty string included, has its variable set to str(value), and a
\* False or None entry writes nothing.
C13_EveryEntryProjected ==
  Projecting =>
    /\ \A i \in 1..Len(call.opts) :
         Projected(call.opts[i].v)
           => /\ HasKey(environ, VarOf(call.opts[i]))
              /\ Lookup(environ, VarOf(call.opts[i])) = TextOf(call.opts[i].v)
    /\ SkippedWriteNothing

\* C13 amended: the same, for every projected entry that no later projected
\* entry of the mapping shares its normalized name with; where names are
\* shared the variable holds the text of the last such entry.
C13_LastEntryProjected ==
  Projecting =>
    /\ \A i \in 1..Len(call.opts) :
         ( /\ Projected(call.opts[i].v)
           /\ \A j \in (i + 1)..Len(call.opts) :
                Projected(call.opts[j].v)
                  => VarOf(call.opts[j]) # VarOf(call.opts[i]) )
           => /\ HasKey(environ, VarOf(call.opts[i]))
              /\ Lookup(environ, VarOf(call.opts[i])) = TextOf(call.opts[i].v)
    /\ SkippedWriteNothing

\* C13 witness: True under '--x' then the empty string under '<x>', over a
\* variable found set: the variable holds the empty string, and another
\* variable is as it was found
C13_Witness ==
  /\ Projecting /\ Len(call.opts) = 2
  /\ call.opts[1].v = PyTrue /\ call.opts[2].v = Str(<<>>)
  /\ HasKey(pre.env, VarOf(call.opts[1]))
  /\ Lookup(pre.env, VarOf(call.opts[1])) # <<>>
  /\ Lookup(environ, VarOf(call.opts[1])) = <<>>
  /\ \E n \in Keys(pre.env) : n # VarOf(call.opts[1]) /\ SameAsBefore(n)

\* the last call was load_from_env
Reading == call.op = "load_from_env"

\* the variables of the prefix of the last call, before it
Matching ==
  { n \in Keys(pre.env) : StartsWith(n, Upper(call.prefix) \o <<"_">>) }

\* the value the claim gives a variable's text: False for "0", "false",
\* "no" in any letter case, else the text
ReadBack(text) ==
  IF Lower(text) \in { <<"0">>, <<"f","a","l","s","e">>, <<"n","o">> }
  THEN PyFalse ELSE Str(text)

\* C14: boolean coercion on read.  load_from_env maps every variable of the
\* prefix whose text is "0", "false" or "no" in any letter case to False
\* and every other one to its text unchanged.
C14_CoercedOnRead ==
  Reading =>
    \A n \in Matching :
      /\ HasKey(ret.d, LeadingRemoved(n, call.prefix))
      /\ Lookup(ret.d, LeadingRemoved(n, call.prefix))
           = ReadBack(Lookup(pre.env, n))

\* C16: key recovery.  load_from_env returns one entry per variable whose
\* name starts with the uppercased prefix and '_', under the name with only
\* that leading segment removed; no other variable gives an entry.
C16_KeyIsNameWithoutLeadingPrefix ==
  Reading =>
    /\ Keys(ret.d) = { LeadingRemoved(n, call.prefix) : n \in Matching }
    /\ Len(ret.d) = Cardinality(Matching)

\* the variable is in the namespace of the prefix of the last call
InNamespace(n) == StartsWith(n, Upper(call.prefix) \o <<"_">>)

\* C18: a load only writes its own namespace.  After a load, first or
\* refresh, returned or raised, every variable whose name does not start
\* with the uppercased prefix and '_' is set the same, or unset the same, as
\* before; and neither load nor get unsets a variable.
C18_OnlyOwnNamespaceWritten ==
  /\ call.op = "load"
       => \A n \in Keys(pre.env) \cup Keys(environ) :
            ~InNamespace(n) => SameAsBefore(n)
  /\ call.op \in {"load", "get"} => Keys(pre.env) \subseteq Keys(environ)

\* C18 witness: a load created a variable while a variable of another
\* namespace was set
C18_Witness ==
  /\ call.op = "load"
  /\ Keys(environ) # Keys(pre.env)
  /\ \E n \in Keys(pre.env) : ~InNamespace(n)

\* the last call was a load of a prefix seen before
Refreshing == call.op = "load" /\ call.prefix \in pre.seen

\* the keys the last call was given: its option names, normalized, and its
\* file's keys, uppercased, as they are and normalized
GivenKeys ==
  { NormName(call.opts[i].k) : i \in 1..Len(call.opts) }
    \cup FileKeys \cup { NormName(K) : K \in FileKeys }

\* C19: a refresh does not leak other prefixes' keys into its namespace.  A
\* load of an already seen prefix P creates or changes the variable P_K
\* only for keys K given in this call's options or file or stored by an
\* earlier load of P.
C19_RefreshWritesOwnKeys ==
  Refreshing =>
    \A n \in Keys(environ) :
      (InNamespace(n) /\ ~SameAsBefore(n))
        => \/ LeadingRemoved(n, call.prefix) \in GivenKeys
           \/ <<call.prefix, LeadingRemoved(n, call.prefix)>> \in pre.stored

\* C12: re-load is idempotent.  When the first load of a prefix is made
\* once more with the same options, file and prefix and nothing else
\* touched the environment in between, the store has the same keys and
\* values after the second call as after the first.
C12_ReloadKeepsStore ==
  call.op = "reload" =>
    /\ immutable_config_values.none = pre.store.none
    /\ SameMapping(immutable_config_values.d, pre.store.d)

\* the store the thread's call leaves when it runs alone from the state the
\* threads started in
StoreAlone(t) ==
  load(pre.store, pre.seen, pre.env,
       threads[t].opts, threads[t].prefix, threads[t].file).store

\* C15: load is a mutually exclusive critical section.  However the
\* statements of two concurrent loads with different prefixes interleave,
\* once both have returned the store holds every key that each of them
\* stores when it runs alone.
C15_NoLoadLost ==
  (\A t \in Threads : At(t, "done") /\ ~threads[t].raised)
    => \A t \in Threads :
         Keys(StoreAlone(t).d) \subseteq Keys(immutable_config_values.d)

====
